---- MODULE Spec2Model ----
(***************************************************************************)
(* Model of the sslvpn_playwright automation: lib/authentication.py        *)
(* (Authentication) and lib/pages.py (PageNavigator), driven against a     *)
(* browser page whose every awaited call either completes or raises.       *)
(* Strings are sequences of one-character strings; an environment variable *)
(* that is not set is the value Unset.                                     *)
(***************************************************************************)
EXTENDS Integers, Sequences, FiniteSets, TLC

VARIABLES env, headless, self, authPc, authResult, calls, prompted,
          inputLine, sms_code, dialogHandler, fieldLen, elapsed,
          navPc, navOp, navResult, table, rowIdx, vpcs, rowCalls,
          runPc, dialogLog, otherLog, authCalls

vars == <<env, headless, self, authPc, authResult, calls, prompted,
          inputLine, sms_code, dialogHandler, fieldLen, elapsed,
          navPc, navOp, navResult, table, rowIdx, vpcs, rowCalls,
          runPc, dialogLog, otherLog, authCalls>>

authVars == <<env, headless, self, authPc, authResult, prompted,
              inputLine, sms_code, dialogHandler, fieldLen, elapsed>>

navVars == <<navPc, navOp, navResult, table, rowIdx, vpcs, rowCalls>>

\* position of main.run, dialogs the page has raised, steps of other tasks on
\* the event loop, number of times auth has been entered
auxVars == <<runPc, dialogLog, otherLog, authCalls>>

----------------------------------------------------------------------------
(* Bounds of the model *)

MaxInputLen == 5
MaxEnvCodeLen == 6
MaxFieldLen == 6
TickMs == 20000
MaxRows == 5
RunMaxRows == 2
MaxDialogs == 2
MaxOtherSteps == 2
MaxAuthCalls == 2

----------------------------------------------------------------------------
(* Values *)

Unset == [present |-> FALSE, val |-> <<>>]
Str(s) == [present |-> TRUE, val |-> s]

\* Python truthiness of an Optional[str]: None and '' are falsy
Truthy(v) == v.present /\ v.val # <<>>

\* all([...]) over Optional[str] values
All(vs) == \A k \in 1..Len(vs) : Truthy(vs[k])

IsSpace(c) == c = " "

RECURSIVE LStrip(_)
LStrip(s) == IF s # <<>> /\ IsSpace(Head(s)) THEN LStrip(Tail(s)) ELSE s

RECURSIVE RStrip(_)
RStrip(s) ==
    IF s # <<>> /\ IsSpace(s[Len(s)]) THEN RStrip(SubSeq(s, 1, Len(s) - 1)) ELSE s

\* str.strip()
Strip(s) == RStrip(LStrip(s))

RECURSIVE SeqsUpTo(_, _)
SeqsUpTo(S, n) ==
    IF n = 0 THEN {<<>>}
    ELSE LET shorter == SeqsUpTo(S, n - 1)
         IN  shorter \cup {Append(s, c) : s \in {t \in shorter : Len(t) = n - 1}, c \in S}

DigitChar(i) == <<"1", "2", "3", "4", "5", "6", "7", "8", "9", "0">>[((i - 1) % 10) + 1]
Digits(n) == [i \in 1..n |-> DigitChar(i)]

\* what the operator may type at the console prompt
InputStrings == SeqsUpTo({" ", "1"}, MaxInputLen)

CredValues == {Unset, Str(<<>>), Str(<<"a">>)}
UrlValues == {Unset, Str(<<"u">>)}
EnvCodeValues == {Unset} \cup {Str(Digits(n)) : n \in {0, 1, 3, MaxEnvCodeLen}}

Environments ==
    [AUTH_URL : UrlValues, LOGIN_ALIAS : CredValues, USERNAME : CredValues,
     PASSWORD : CredValues, SMS_CODE : EnvCodeValues]

----------------------------------------------------------------------------
(* Exceptions *)

\* what an awaited page call raises when it does not complete
EngineFailures == {"PlaywrightTimeoutError", "PlaywrightError"}

\* the class hierarchy: playwright's TimeoutError derives from playwright's
\* Error, which derives from Exception; the builtin TimeoutError is unrelated
Parent(c) ==
    CASE c = "PlaywrightTimeoutError" -> "PlaywrightError"
      [] c = "PlaywrightError" -> "Exception"
      [] c = "AuthenticationError" -> "Exception"
      [] c = "PageNavigationError" -> "Exception"
      [] c = "TimeoutError" -> "OSError"
      [] c = "OSError" -> "Exception"
      [] OTHER -> "BaseException"

RECURSIVE IsInstance(_, _)
IsInstance(c, cls) ==
    \/ c = cls
    \/ c # "BaseException" /\ IsInstance(Parent(c), cls)

----------------------------------------------------------------------------
(* Selectors and program constants of lib/authentication.py *)

SelLoginAlias == "#loginAlias"
SelUsername == "#username"
SelPassword == "#passwordPlain"
SelLoginSubmit == "#loginForm > button"
SelSmsTrigger ==
    "#app > div.popup > div.panel.certi > div.content > div:nth-child(3) > div.btn-wrap > a"
SelSmsCode == "#loginForm > div > input[type=text]"
SelSmsConfirm == "#loginForm > a"

SmsWaitTimeout == 60000
MinCodeLen == 4
MinFieldLen == 5

Call(op, target, value, outcome) ==
    [op |-> op, target |-> target, value |-> value, outcome |-> outcome]

\* outcomes of one awaited page call; navigating to a missing URL cannot succeed
Outcomes(op, value) ==
    IF op = "goto" /\ ~Truthy(value) THEN EngineFailures
    ELSE {"ok"} \cup EngineFailures

----------------------------------------------------------------------------
(* Authentication *)

\* except Exception in _sms_authentication
SmsHandler(exc) ==
    IF IsInstance(exc, "Exception") THEN "AuthenticationError" ELSE exc

\* except Exception in auth
AuthHandlerRaw(exc) == exc
AuthHandler(exc) ==
    IF IsInstance(exc, "Exception") THEN "AuthenticationError" ELSE exc

\* the exception leaving auth when exc is raised inside _login (inSms FALSE)
\* or inside _sms_authentication (inSms TRUE)
AuthRaise(exc, inSms) ==
    IF inSms THEN AuthHandler(SmsHandler(exc)) ELSE AuthHandler(exc)

\* __init__: the check on the environment values
CredentialsOk(e) == All(<<e.LOGIN_ALIAS, e.USERNAME, e.PASSWORD>>)

\* if sms_code: (environment value used)
EnvCodeIgnored(code) == FALSE
EnvCodeValidated(code) == Truthy(code) /\ Len(code.val) >= MinCodeLen
EnvCodePresent(code) == Truthy(code)

\* if not sms_code or len(sms_code) < 4: raise
CodeValidLax(s) == TRUE
CodeValid(s) == ~(s = <<>> \/ Len(s) < MinCodeLen)

\* the predicate handed to wait_for_function
SmsPredicateLax(len) == len >= MinFieldLen
SmsPredicate(len) == len > MinFieldLen

\* if self.headless: ... else: ...
CodeStepSkipped(h) == "click_final"
CodeStepAcquires(h) == "get_sms_code"
CodeStep(h) == IF h THEN "get_sms_code" ELSE "wait_function"

NoSelf == [url |-> Unset, login_alias |-> Unset, username |-> Unset, password |-> Unset]

AuthInit ==
    /\ env \in Environments
    /\ headless \in BOOLEAN
    /\ self = NoSelf
    /\ authPc = "new"
    /\ authResult = "none"
    /\ calls = <<>>
    /\ prompted = FALSE
    /\ inputLine = Unset
    /\ sms_code = Unset
    /\ dialogHandler = FALSE
    /\ fieldLen = 0
    /\ elapsed = 0
    /\ navPc = "idle"
    /\ navOp = "none"
    /\ navResult = "none"
    /\ table = <<>>
    /\ rowIdx = 0
    /\ vpcs = <<>>
    /\ rowCalls = <<>>
    /\ runPc = "off"
    /\ dialogLog = <<>>
    /\ otherLog = <<>>
    /\ authCalls = 0

\* Authentication.__init__
Construct ==
    /\ authPc = "new"
    /\ self' = [url |-> env.AUTH_URL, login_alias |-> env.LOGIN_ALIAS,
                username |-> env.USERNAME, password |-> env.PASSWORD]
    /\ IF CredentialsOk(env)
       THEN authPc' = "ready" /\ authResult' = authResult
       ELSE authPc' = "ctor_raised" /\ authResult' = "AuthenticationError"
    /\ UNCHANGED <<env, headless, calls, prompted, inputLine, sms_code, dialogHandler,
                   fieldLen, elapsed>>
    /\ UNCHANGED navVars
    /\ UNCHANGED auxVars

\* one awaited page call of the authentication flow and what follows it
AuthCall(here, op, target, value, next, inSms) ==
    /\ authPc = here
    /\ \E out \in Outcomes(op, value) :
         /\ calls' = Append(calls, Call(op, target, value, out))
         /\ IF out = "ok"
            THEN /\ authPc' = next
                 /\ authResult' = IF next = "done" THEN "returned" ELSE authResult
            ELSE /\ authPc' = "done"
                 /\ authResult' = AuthRaise(out, inSms)
    /\ UNCHANGED <<env, headless, self, prompted, inputLine, sms_code, dialogHandler,
                   fieldLen, elapsed>>
    /\ UNCHANGED navVars
    /\ UNCHANGED auxVars

\* auth is entered
AuthBegin ==
    /\ authPc = "ready"
    /\ authPc' = "goto"
    /\ authCalls' = authCalls + 1
    /\ UNCHANGED <<env, headless, self, authResult, calls, prompted, inputLine, sms_code,
                   dialogHandler, fieldLen, elapsed>>
    /\ UNCHANGED navVars
    /\ UNCHANGED <<runPc, dialogLog, otherLog>>

LoginGoto == AuthCall("goto", "goto", "", self.url, "wait_form", FALSE)
LoginWaitForm ==
    AuthCall("wait_form", "wait_for_selector", SelLoginAlias, Unset, "fill_alias", FALSE)
LoginFillAlias ==
    AuthCall("fill_alias", "fill", SelLoginAlias, self.login_alias, "fill_username", FALSE)
LoginFillUsername ==
    AuthCall("fill_username", "fill", SelUsername, self.username, "fill_password", FALSE)
LoginFillPassword ==
    AuthCall("fill_password", "fill", SelPassword, self.password, "click_submit", FALSE)
LoginClickSubmit ==
    AuthCall("click_submit", "click", SelLoginSubmit, Unset, "wait_load_login", FALSE)
LoginWaitLoad ==
    AuthCall("wait_load_login", "wait_for_load_state", "", Unset, "click_trigger", FALSE)

SmsClickTrigger ==
    AuthCall("click_trigger", "click", SelSmsTrigger, Unset, "once_dialog", TRUE)

\* page.once('dialog', ...), then the branch on self.headless
SmsRegisterDialog ==
    /\ authPc = "once_dialog"
    /\ dialogHandler' = TRUE
    /\ authPc' = CodeStep(headless)
    /\ UNCHANGED <<env, headless, self, authResult, calls, prompted, inputLine, sms_code,
                   fieldLen, elapsed>>
    /\ UNCHANGED navVars
    /\ UNCHANGED auxVars

\* _get_sms_code up to the suspension on run_in_executor
GetSmsCode ==
    /\ authPc = "get_sms_code"
    /\ IF EnvCodePresent(env.SMS_CODE)
       THEN /\ sms_code' = env.SMS_CODE
            /\ authPc' = "fill_code"
            /\ prompted' = prompted
       ELSE /\ sms_code' = sms_code
            /\ authPc' = "await_input"
            /\ prompted' = TRUE
    /\ UNCHANGED <<env, headless, self, authResult, calls, inputLine,
                   dialogHandler, fieldLen, elapsed>>
    /\ UNCHANGED navVars
    /\ UNCHANGED auxVars

\* the operator's line arrives: strip, validate, return or raise
OperatorInput ==
    /\ authPc = "await_input"
    /\ \E raw \in InputStrings :
         LET code == Strip(raw)
         IN  /\ inputLine' = Str(raw)
             /\ sms_code' = Str(code)
             /\ IF CodeValid(code)
                THEN authPc' = "fill_code" /\ authResult' = authResult
                ELSE authPc' = "done" /\ authResult' = AuthRaise("AuthenticationError", TRUE)
    /\ UNCHANGED <<env, headless, self, calls, prompted, dialogHandler,
                   fieldLen, elapsed>>
    /\ UNCHANGED navVars
    /\ UNCHANGED auxVars

SmsFillCode ==
    AuthCall("fill_code", "fill", SelSmsCode, sms_code, "click_final", TRUE)

Min(a, b) == IF a < b THEN a ELSE b

\* while wait_for_function polls: the person at the browser edits the field
UserEdits ==
    /\ authPc = "wait_function"
    /\ elapsed < SmsWaitTimeout
    /\ ~SmsPredicate(fieldLen)
    /\ \E n \in {fieldLen - 1, fieldLen + 1} :
         /\ n \in 0..MaxFieldLen
         /\ fieldLen' = n
    /\ UNCHANGED <<env, headless, self, authPc, authResult, calls, prompted,
                   inputLine, sms_code, dialogHandler, elapsed>>
    /\ UNCHANGED navVars
    /\ UNCHANGED auxVars

\* while wait_for_function polls: time passes with the predicate still false
Tick ==
    /\ authPc = "wait_function"
    /\ elapsed < SmsWaitTimeout
    /\ ~SmsPredicate(fieldLen)
    /\ elapsed' = Min(elapsed + TickMs, SmsWaitTimeout)
    /\ UNCHANGED <<env, headless, self, authPc, authResult, calls, prompted,
                   inputLine, sms_code, dialogHandler, fieldLen>>
    /\ UNCHANGED navVars
    /\ UNCHANGED auxVars

\* wait_for_function ends: predicate seen true, timeout expired, or page error
BrowserSmsWait ==
    /\ authPc = "wait_function"
    /\ \E out \in {"ok"} \cup EngineFailures :
         /\ out = "ok" => SmsPredicate(fieldLen) /\ elapsed < SmsWaitTimeout
         /\ out = "PlaywrightTimeoutError" =>
                ~SmsPredicate(fieldLen) /\ elapsed >= SmsWaitTimeout
         /\ calls' = Append(calls, Call("wait_for_function", SelSmsCode, Unset, out))
         /\ IF out = "ok"
            THEN authPc' = "click_final" /\ authResult' = authResult
            ELSE authPc' = "done" /\ authResult' = AuthRaise(out, TRUE)
    /\ UNCHANGED <<env, headless, self, prompted, inputLine, sms_code, dialogHandler,
                   fieldLen, elapsed>>
    /\ UNCHANGED navVars
    /\ UNCHANGED auxVars

SmsClickFinal ==
    AuthCall("click_final", "click", SelSmsConfirm, Unset, "wait_load_sms", TRUE)
SmsWaitLoad ==
    AuthCall("wait_load_sms", "wait_for_load_state", "", Unset, "done", TRUE)

AuthNext ==
    \/ Construct
    \/ AuthBegin
    \/ LoginGoto
    \/ LoginWaitForm
    \/ LoginFillAlias
    \/ LoginFillUsername
    \/ LoginFillPassword
    \/ LoginClickSubmit
    \/ LoginWaitLoad
    \/ SmsClickTrigger
    \/ SmsRegisterDialog
    \/ GetSmsCode
    \/ OperatorInput
    \/ SmsFillCode
    \/ UserEdits
    \/ Tick
    \/ BrowserSmsWait
    \/ SmsClickFinal
    \/ SmsWaitLoad

SpecAuth == AuthInit /\ [][AuthNext]_vars

----------------------------------------------------------------------------
(* Dialogs raised by the page while authentication runs *)

DialogKinds == {"alert", "confirm", "prompt"}

\* the lambda given to page.once: dismiss if dialog.type == 'alert' else None
HandlerDismisses(kind) == kind = "alert"

\* positions at which auth is suspended in an awaited call from the trigger
\* click on; the flow reaches the click in the same synchronous run that
\* ended the previous await, so at "click_trigger" the click is in flight
DialogPcs ==
    {"click_trigger", "await_input", "fill_code", "wait_function",
     "click_final", "wait_load_sms"}

\* the page raises a dialog: a registered once-listener is called and removed
\* (it dismisses alerts only); with no listener the engine dismisses it
DialogOpens ==
    /\ authPc \in DialogPcs
    /\ Len(dialogLog) < MaxDialogs
    /\ \E kind \in DialogKinds :
         dialogLog' = Append(dialogLog,
             [kind |-> kind, during |-> authPc,
              by |-> IF ~dialogHandler THEN "engine"
                     ELSE IF HandlerDismisses(kind) THEN "interceptor"
                     ELSE "nobody"])
    /\ dialogHandler' = FALSE
    /\ UNCHANGED <<env, headless, self, authPc, authResult, calls, prompted,
                   inputLine, sms_code, fieldLen, elapsed>>
    /\ UNCHANGED navVars
    /\ UNCHANGED <<runPc, otherLog, authCalls>>

DialogNext ==
    \/ AuthNext
    \/ DialogOpens

SpecDialog == AuthInit /\ [][DialogNext]_vars

----------------------------------------------------------------------------
(* Other tasks on the event loop while authentication runs *)

\* input() is handed to loop.run_in_executor, so it runs off the event loop
InputOnEventLoop == FALSE
InputInExecutor == TRUE

\* positions at which auth is suspended in an await
AwaitPcs ==
    {"goto", "wait_form", "fill_alias", "fill_username", "fill_password",
     "click_submit", "wait_load_login", "click_trigger", "await_input",
     "fill_code", "wait_function", "click_final", "wait_load_sms"}

\* the event loop cannot run anything while a blocking call sits on it
LoopBlocked == authPc = "await_input" /\ ~InputInExecutor

\* another task of the process takes a step while auth is suspended
OtherTaskStep ==
    /\ authPc \in AwaitPcs
    /\ ~LoopBlocked
    /\ Len(otherLog) < MaxOtherSteps
    /\ otherLog' = Append(otherLog, authPc)
    /\ UNCHANGED authVars
    /\ UNCHANGED navVars
    /\ UNCHANGED <<calls, runPc, dialogLog, authCalls>>

ConcNext ==
    \/ AuthNext
    \/ OtherTaskStep

SpecConc == AuthInit /\ [][ConcNext]_vars

----------------------------------------------------------------------------
(* auth called again on the same authenticator and page *)

\* auth holds no flag of a completed authentication: its body always starts
\* with _login, whatever an earlier call did
AuthEntryOnce(done) == IF done THEN "done" ELSE "goto"
AuthEntry(done) == "goto"

\* a second await authenticator.auth(page) after the first one returned
AuthAgain ==
    /\ authPc = "done"
    /\ authResult = "returned"
    /\ authCalls < MaxAuthCalls
    /\ authCalls' = authCalls + 1
    /\ authPc' = AuthEntry(TRUE)
    /\ authResult' = IF AuthEntry(TRUE) = "done" THEN "returned" ELSE "none"
    /\ prompted' = FALSE
    /\ inputLine' = Unset
    /\ sms_code' = Unset
    /\ elapsed' = 0
    /\ fieldLen' \in {0, fieldLen}
    /\ UNCHANGED <<env, headless, self, calls, dialogHandler>>
    /\ UNCHANGED navVars
    /\ UNCHANGED <<runPc, dialogLog, otherLog>>

TwiceNext ==
    \/ AuthNext
    \/ AuthAgain

SpecTwice == AuthInit /\ [][TwiceNext]_vars

----------------------------------------------------------------------------
(* PageNavigator *)

SelPopupCheckbox == "#mCSB_6_container > div > div > label > input[type=checkbox]"
SelPopupConfirm == "#mCSB_6_container > div > div > a"
SelVpcButton ==
    "#aside > div.lnb.gov-lnb > div.extend > div.platform > a > div > button.btn.btn-sm.flat.btn-platform.vpc"
SelTableBody ==
    "#app > div > div.ph-30.page-body > div.scroll-tbl > div.tbody > table > tbody"
SelTableRows ==
    "#app > div > div.ph-30.page-body > div.scroll-tbl > div.tbody > table > tbody > tr"

ConsoleUrl == Str(<<"c">>)
SslVpnUrl == Str(<<"s">>)

\* what reading an element's text_content() gives: a raise, None, or a string
TextRaises == [raises |-> TRUE, text |-> Unset]
TextNone == [raises |-> FALSE, text |-> Unset]
Text(s) == [raises |-> FALSE, text |-> Str(s)]

\* a table row as the extraction sees it: query is what
\* row.query_selector('td:nth-child(2) > span') does (an element, None, or a
\* raise), name is the text of that element, cols the texts of the row's td
Row(q, n, cs) == [query |-> q, name |-> n, cols |-> cs]

RowKinds ==
    { Row("element", Text(<<" ", "a">>), <<Text(<<"1", " ">>), Text(<<" ", "a">>)>>),
      Row("element", TextNone, <<TextNone>>),
      Row("none", TextNone, <<Text(<<"x">>)>>),
      Row("raises", TextNone, <<>>),
      Row("element", Text(<<"b">>), <<Text(<<"2">>), TextRaises, Text(<<"b">>)>>) }

RECURSIVE TablesUpTo(_)
TablesUpTo(n) ==
    IF n = 0 THEN {<<>>}
    ELSE LET shorter == TablesUpTo(n - 1)
         IN  shorter \cup {Append(t, r) : t \in {u \in shorter : Len(u) = n - 1},
                                          r \in RowKinds}

Tables == TablesUpTo(MaxRows)

\* x.strip() if x else ''
StripOrEmpty(t) == IF Truthy(t.text) THEN Strip(t.text.val) ELSE <<>>

\* the try body of the row loop for the row at 0-based position i: the record
\* it appends, or nothing when the name element is missing or a read raises
RowRaised(row) ==
    \/ row.query = "raises"
    \/ row.query = "element" /\ row.name.raises
    \/ row.query = "element" /\ \E j \in 1..Len(row.cols) : row.cols[j].raises

RowIndexOfResult(i, out) == Len(out) + 1
RowIndex(i, out) == i + 1

RowRecord(row, i, out) ==
    [name |-> StripOrEmpty(row.name),
     row_index |-> RowIndex(i, out),
     columns |-> [j \in 1..Len(row.cols) |-> StripOrEmpty(row.cols[j])]]

\* except Exception inside the loop: log a warning and continue
RowFailureAborts(out) == <<>>
RowFailure(out) == out

\* except TimeoutError in _remove_popup_if_exists; pages.py imports no
\* TimeoutError, so the name is the builtin one
PopupAbsentAny(exc) == IsInstance(exc, "Exception")
PopupAbsent(exc) == IsInstance(exc, "TimeoutError")

\* except Exception in the three public operations
NavHandlerRaw(exc) == exc
NavHandler(exc) ==
    IF IsInstance(exc, "Exception") THEN "PageNavigationError" ELSE exc

\* return vpcs
ExtractRaisesOnEmpty(out) == IF out = <<>> THEN "PageNavigationError" ELSE "returned"
ExtractResult(out) == "returned"

NavInit ==
    /\ navPc = "idle"
    /\ navOp = "none"
    /\ navResult = "none"
    /\ table = <<>>
    /\ rowIdx = 0
    /\ vpcs = <<>>
    /\ rowCalls = <<>>
    /\ runPc = "off"
    /\ dialogLog = <<>>
    /\ otherLog = <<>>
    /\ authCalls = 0
    /\ env = [AUTH_URL |-> Unset, LOGIN_ALIAS |-> Unset, USERNAME |-> Unset,
              PASSWORD |-> Unset, SMS_CODE |-> Unset]
    /\ headless = FALSE
    /\ self = NoSelf
    /\ authPc = "new"
    /\ authResult = "none"
    /\ calls = <<>>
    /\ prompted = FALSE
    /\ inputLine = Unset
    /\ sms_code = Unset
    /\ dialogHandler = FALSE
    /\ fieldLen = 0
    /\ elapsed = 0

\* one awaited page call of a navigation operation and what follows it
NavCall(here, op, target, value, next) ==
    /\ navPc = here
    /\ \E out \in Outcomes(op, value) :
         /\ calls' = Append(calls, Call(op, target, value, out))
         /\ IF out = "ok"
            THEN /\ navPc' = next
                 /\ navResult' = IF next = "done" THEN "returned" ELSE navResult
            ELSE /\ navPc' = "done"
                 /\ navResult' = NavHandler(out)
    /\ UNCHANGED <<navOp, table, rowIdx, vpcs, rowCalls>>
    /\ UNCHANGED authVars
    /\ UNCHANGED auxVars

\* a public operation of PageNavigator is entered
NavBegin(op, first) ==
    /\ navPc = "idle"
    /\ navOp' = op
    /\ navPc' = first
    /\ UNCHANGED <<navResult, table, rowIdx, vpcs, rowCalls, calls>>
    /\ UNCHANGED authVars
    /\ UNCHANGED auxVars

VpcBegin == NavBegin("navigate_to_vpc_page", "console_goto")
VpcGoto == NavCall("console_goto", "goto", "", ConsoleUrl, "popup_probe")

\* _remove_popup_if_exists: the probe for the checkbox and its handlers
PopupProbe ==
    /\ navPc = "popup_probe"
    /\ \E out \in Outcomes("wait_for_selector", Unset) :
         /\ calls' = Append(calls, Call("wait_for_selector", SelPopupCheckbox, Unset, out))
         /\ IF out = "ok"
            THEN navPc' = "popup_check" /\ navResult' = navResult
            ELSE IF PopupAbsent(out)
                 THEN navPc' = "vpc_click" /\ navResult' = navResult
                 ELSE navPc' = "done" /\ navResult' = NavHandler(out)
    /\ UNCHANGED <<navOp, table, rowIdx, vpcs, rowCalls>>
    /\ UNCHANGED authVars
    /\ UNCHANGED auxVars

\* a click inside _remove_popup_if_exists and its handlers
PopupClick(here, target, next) ==
    /\ navPc = here
    /\ \E out \in Outcomes("click", Unset) :
         /\ calls' = Append(calls, Call("click", target, Unset, out))
         /\ IF out = "ok"
            THEN navPc' = next /\ navResult' = navResult
            ELSE IF PopupAbsent(out)
                 THEN navPc' = "vpc_click" /\ navResult' = navResult
                 ELSE navPc' = "done" /\ navResult' = NavHandler(out)
    /\ UNCHANGED <<navOp, table, rowIdx, vpcs, rowCalls>>
    /\ UNCHANGED authVars
    /\ UNCHANGED auxVars

PopupClickCheckbox == PopupClick("popup_check", SelPopupCheckbox, "popup_confirm")
PopupClickConfirm == PopupClick("popup_confirm", SelPopupConfirm, "vpc_click")

VpcClick == NavCall("vpc_click", "click", SelVpcButton, Unset, "vpc_wait_load")
VpcWaitLoad == NavCall("vpc_wait_load", "wait_for_load_state", "", Unset, "done")

SslVpnBegin == NavBegin("navigate_to_sslvpn_page", "sslvpn_goto")
SslVpnGoto == NavCall("sslvpn_goto", "goto", "", SslVpnUrl, "sslvpn_wait_load")
SslVpnWaitLoad == NavCall("sslvpn_wait_load", "wait_for_load_state", "", Unset, "done")

ExtractBegin == NavBegin("extract_all_vpcs", "table_wait")
ExtractWaitTable ==
    NavCall("table_wait", "wait_for_selector", SelTableBody, Unset, "table_query")

\* query_selector_all for the rows, then vpcs = []; tables is what the page
\* may have rendered
ExtractQueryRowsFrom(tables) ==
    /\ navPc = "table_query"
    /\ \E out \in Outcomes("query_selector_all", Unset) :
         /\ calls' = Append(calls, Call("query_selector_all", SelTableRows, Unset, out))
         /\ IF out = "ok"
            THEN /\ navPc' = "rows"
                 /\ navResult' = navResult
                 /\ table' \in tables
            ELSE /\ navPc' = "done"
                 /\ navResult' = NavHandler(out)
                 /\ table' = table
    /\ rowIdx' = 0
    /\ vpcs' = <<>>
    /\ UNCHANGED <<navOp, rowCalls>>
    /\ UNCHANGED authVars
    /\ UNCHANGED auxVars

ExtractQueryRows == ExtractQueryRowsFrom(Tables)

\* a call on an element handle of the row at 1-based position k
RowCall(k, op, col, outcome) == [row |-> k, op |-> op, col |-> col, outcome |-> outcome]

\* how many of the row's columns are read before a read raises
ColsReadAll(cols) == Len(cols)
RECURSIVE ColsRead(_)
ColsRead(cols) ==
    IF cols = <<>> \/ Head(cols).raises THEN 0 ELSE 1 + ColsRead(Tail(cols))

TextOutcome(t) == IF t.raises THEN "PlaywrightError" ELSE "ok"

\* the element-handle calls the try body issues for the row at position k
RowCallsOf(row, k) ==
    LET n == ColsRead(row.cols)
        last == Min(n + 1, Len(row.cols))
    IN  << RowCall(k, "query_selector", 0,
                   IF row.query = "raises" THEN "PlaywrightError" ELSE "ok") >>
        \o (IF row.query # "element" THEN <<>>
            ELSE << RowCall(k, "text_content", 0, TextOutcome(row.name)) >>
                 \o (IF row.name.raises THEN <<>>
                     ELSE << RowCall(k, "query_selector_all", 0, "ok") >>
                          \o [j \in 1..last |->
                                RowCall(k, "text_content", j, TextOutcome(row.cols[j]))]))

\* vpc_data as it stands when n columns have been stored
RowData(row, i, out, n) ==
    [RowRecord(row, i, out) EXCEPT !.columns = SubSeq(@, 1, n)]

\* vpcs.append(vpc_data) stands after the loop over the columns
RowAppendEarly(out, data, complete) == Append(out, data)
RowAppend(out, data, complete) == IF complete THEN Append(out, data) ELSE out

\* one iteration of for i, row in enumerate(vpc_rows)
ExtractRow ==
    /\ navPc = "rows"
    /\ rowIdx < Len(table)
    /\ LET row == table[rowIdx + 1]
           n == ColsRead(row.cols)
           complete == n = Len(row.cols)
       IN  /\ vpcs' = IF row.query = "element" /\ ~row.name.raises
                      THEN IF complete
                           THEN RowAppend(vpcs, RowData(row, rowIdx, vpcs, n), TRUE)
                           ELSE RowFailure(RowAppend(vpcs, RowData(row, rowIdx, vpcs, n), FALSE))
                      ELSE IF RowRaised(row) THEN RowFailure(vpcs)
                      ELSE vpcs
           /\ rowCalls' = rowCalls \o RowCallsOf(row, rowIdx + 1)
    /\ rowIdx' = rowIdx + 1
    /\ UNCHANGED <<navPc, navOp, navResult, table, calls>>
    /\ UNCHANGED authVars
    /\ UNCHANGED auxVars

\* the loop is exhausted: return vpcs
ExtractReturn ==
    /\ navPc = "rows"
    /\ rowIdx = Len(table)
    /\ navPc' = "done"
    /\ navResult' = ExtractResult(vpcs)
    /\ UNCHANGED <<navOp, table, rowIdx, vpcs, rowCalls, calls>>
    /\ UNCHANGED authVars
    /\ UNCHANGED auxVars

NavNext ==
    \/ VpcBegin
    \/ VpcGoto
    \/ PopupProbe
    \/ PopupClickCheckbox
    \/ PopupClickConfirm
    \/ VpcClick
    \/ VpcWaitLoad
    \/ SslVpnBegin
    \/ SslVpnGoto
    \/ SslVpnWaitLoad
    \/ ExtractBegin
    \/ ExtractWaitTable
    \/ ExtractQueryRows
    \/ ExtractRow
    \/ ExtractReturn

SpecNav == NavInit /\ [][NavNext]_vars

----------------------------------------------------------------------------
(* main.run *)

\* the except blocks of run end with return: the next stage is reached only
\* when the awaited operation returned
StageOkAlways(result) == TRUE
StageOk(result) == result = "returned"

\* HEADLESS_MODE is the configuration switch of run; both settings are
\* covered.  The page renders one of the tables of up to RunMaxRows rows.
RunInit ==
    /\ env \in Environments
    /\ headless \in BOOLEAN
    /\ self = NoSelf
    /\ authPc = "new"
    /\ authResult = "none"
    /\ calls = <<>>
    /\ prompted = FALSE
    /\ inputLine = Unset
    /\ sms_code = Unset
    /\ dialogHandler = FALSE
    /\ fieldLen = 0
    /\ elapsed = 0
    /\ navPc = "idle"
    /\ navOp = "none"
    /\ navResult = "none"
    /\ table = <<>>
    /\ rowIdx = 0
    /\ vpcs = <<>>
    /\ rowCalls = <<>>
    /\ runPc = "launch"
    /\ dialogLog = <<>>
    /\ otherLog = <<>>
    /\ authCalls = 0

\* Authentication(headless=HEADLESS_MODE) raised: the exception leaves run
RunCtorRaised ==
    /\ runPc = "launch"
    /\ authPc = "ctor_raised"
    /\ runPc' = "raised"
    /\ UNCHANGED <<dialogLog, otherLog, authCalls, calls>>
    /\ UNCHANGED authVars
    /\ UNCHANGED navVars

\* await authenticator.auth(page) is entered
RunAuth ==
    /\ runPc = "launch"
    /\ authPc = "ready"
    /\ runPc' = "auth"
    /\ authPc' = "goto"
    /\ authCalls' = authCalls + 1
    /\ UNCHANGED <<env, headless, self, authResult, calls, prompted, inputLine, sms_code,
                   dialogHandler, fieldLen, elapsed>>
    /\ UNCHANGED navVars
    /\ UNCHANGED <<dialogLog, otherLog>>

\* the stage before has ended with result: enter the navigator's operation op
\* or, in the except block, close the browser and return
RunStage(stage, result, next, op, first) ==
    /\ runPc = stage
    /\ IF StageOk(result)
       THEN /\ runPc' = next
            /\ navOp' = op
            /\ navPc' = first
            /\ navResult' = "none"
       ELSE /\ runPc' = "closed"
            /\ UNCHANGED <<navOp, navPc, navResult>>
    /\ UNCHANGED <<table, rowIdx, vpcs, rowCalls, calls>>
    /\ UNCHANGED authVars
    /\ UNCHANGED <<dialogLog, otherLog, authCalls>>

RunVpc ==
    /\ authPc = "done"
    /\ RunStage("auth", authResult, "vpc", "navigate_to_vpc_page", "console_goto")

RunSslVpn ==
    /\ navPc = "done"
    /\ RunStage("vpc", navResult, "sslvpn", "navigate_to_sslvpn_page", "sslvpn_goto")

RunExtract ==
    /\ navPc = "done"
    /\ RunStage("sslvpn", navResult, "extract", "extract_all_vpcs", "table_wait")

RunQueryRows == ExtractQueryRowsFrom(TablesUpTo(RunMaxRows))

\* extraction returned or raised: print or log, sleep, close the browser
RunFinish ==
    /\ runPc = "extract"
    /\ navPc = "done"
    /\ runPc' = "closed"
    /\ UNCHANGED <<dialogLog, otherLog, authCalls, calls>>
    /\ UNCHANGED authVars
    /\ UNCHANGED navVars

RunNext ==
    \/ Construct
    \/ RunCtorRaised
    \/ RunAuth
    \/ LoginGoto
    \/ LoginWaitForm
    \/ LoginFillAlias
    \/ LoginFillUsername
    \/ LoginFillPassword
    \/ LoginClickSubmit
    \/ LoginWaitLoad
    \/ SmsClickTrigger
    \/ SmsRegisterDialog
    \/ GetSmsCode
    \/ OperatorInput
    \/ SmsFillCode
    \/ UserEdits
    \/ Tick
    \/ BrowserSmsWait
    \/ SmsClickFinal
    \/ SmsWaitLoad
    \/ RunVpc
    \/ VpcGoto
    \/ PopupProbe
    \/ PopupClickCheckbox
    \/ PopupClickConfirm
    \/ VpcClick
    \/ VpcWaitLoad
    \/ RunSslVpn
    \/ SslVpnGoto
    \/ SslVpnWaitLoad
    \/ RunExtract
    \/ ExtractWaitTable
    \/ RunQueryRows
    \/ ExtractRow
    \/ ExtractReturn
    \/ RunFinish

SpecRun == RunInit /\ [][RunNext]_vars

----------------------------------------------------------------------------
(* Properties *)

Failed(c) == c.outcome # "ok"
AllOk == \A k \in 1..Len(calls) : ~Failed(calls[k])
IsProbe(c) == c.op = "wait_for_selector" /\ c.target = SelPopupCheckbox
IsPopupCall(c) == c.target \in {SelPopupCheckbox, SelPopupConfirm}
IsVpcClick(c) == c.op = "click" /\ c.target = SelVpcButton
IsCodeFill(c) == c.op = "fill" /\ c.target = SelSmsCode
IsFinalClick(c) == c.op = "click" /\ c.target = SelSmsConfirm

\* C1: in navigate_to_vpc_page a popup probe that times out is not an error:
\* right after it the operation goes on to the product-section click, and
\* if every later call succeeds the operation returns normally with that
\* click issued.
C1_ProbeTimeoutProceeds ==
    \A k \in 1..Len(calls) :
        IsProbe(calls[k]) /\ calls[k].outcome = "PlaywrightTimeoutError" =>
            /\ k = Len(calls) => navPc = "vpc_click" /\ navResult = "none"
            /\ (navPc = "done" /\ \A j \in (k + 1)..Len(calls) : ~Failed(calls[j])) =>
                   /\ navResult = "returned"
                   /\ \E j \in (k + 1)..Len(calls) : IsVpcClick(calls[j])

\* the page calls of a successful authentication, in order
LoginCalls ==
    << Call("goto", "", self.url, "ok"),
       Call("wait_for_selector", SelLoginAlias, Unset, "ok"),
       Call("fill", SelLoginAlias, self.login_alias, "ok"),
       Call("fill", SelUsername, self.username, "ok"),
       Call("fill", SelPassword, self.password, "ok"),
       Call("click", SelLoginSubmit, Unset, "ok"),
       Call("wait_for_load_state", "", Unset, "ok") >>

CodeCalls ==
    IF headless THEN << Call("fill", SelSmsCode, sms_code, "ok") >>
    ELSE << Call("wait_for_function", SelSmsCode, Unset, "ok") >>

ExpectedCalls ==
    LoginCalls \o << Call("click", SelSmsTrigger, Unset, "ok") >> \o CodeCalls
        \o << Call("click", SelSmsConfirm, Unset, "ok"),
              Call("wait_for_load_state", "", Unset, "ok") >>

OpTarget(c) == <<c.op, c.target>>
SameStepsPrefix(cs, es) ==
    /\ Len(cs) <= Len(es)
    /\ \A k \in 1..Len(cs) : OpTarget(cs[k]) = OpTarget(es[k])

\* C2 as stated: whenever auth has ended and no page call failed, auth
\* returned normally and issued exactly the calls of the fixed order.
C2_AllCallsOkMeansAuthenticated ==
    (authPc = "done" /\ AllOk) =>
        authResult = "returned" /\ calls = ExpectedCalls

\* C2 amended: while no page call has failed the calls issued so far follow
\* the fixed order with no step skipped; and when auth has ended with no
\* page call failed and, if the operator was prompted, the trimmed line has
\* at least 4 characters, auth returned normally having issued exactly the
\* calls of the fixed order.
C2_OrderedWhenCodeResolves ==
    /\ AllOk => SameStepsPrefix(calls, ExpectedCalls)
    /\ (authPc = "done" /\ AllOk /\ (prompted => Len(Strip(inputLine.val)) >= 4)) =>
           authResult = "returned" /\ calls = ExpectedCalls

C2_Witness ==
    authResult = "returned" /\ prompted /\ Len(calls) = 11

\* C3: once a page call of auth has failed, auth has ended by raising
\* AuthenticationError, and the failed call is the last call issued.
C3_EngineFailureIsAuthenticationError ==
    \A k \in 1..Len(calls) :
        Failed(calls[k]) =>
            /\ k = Len(calls)
            /\ authPc = "done"
            /\ authResult = "AuthenticationError"

C3_Witness ==
    /\ Len(calls) = 4
    /\ calls[4].op = "fill"
    /\ calls[4].outcome = "PlaywrightTimeoutError"
    /\ authResult = "AuthenticationError"

\* the rows of the table that have a name element and raise nowhere
GoodRow(r) ==
    /\ r.query = "element"
    /\ ~r.name.raises
    /\ \A j \in 1..Len(r.cols) : ~r.cols[j].raises
GoodRowsUpTo(n) == {k \in 1..n : GoodRow(table[k])}

\* C4: after the first n rows have been scanned the result holds exactly one
\* record per good row among them, in table order, each with row_index equal
\* to the row's 1-based position in the table; and a scan whose two outer
\* page calls succeeded returns.
C4_RecordsKeepSourcePositions ==
    navPc \in {"rows", "done"} /\ navOp = "extract_all_vpcs" /\ AllOk =>
        /\ Len(vpcs) = Cardinality(GoodRowsUpTo(rowIdx))
        /\ \A n \in 1..Len(vpcs) : vpcs[n].row_index \in GoodRowsUpTo(rowIdx)
        /\ \A m, n \in 1..Len(vpcs) : m < n => vpcs[m].row_index < vpcs[n].row_index
        /\ navPc = "done" => navResult = "returned" /\ rowIdx = Len(table)

C4_Witness ==
    /\ navResult = "returned"
    /\ Len(table) = 5
    /\ ~GoodRow(table[2])
    /\ [n \in 1..Len(vpcs) |-> vpcs[n].row_index] = <<1, 3, 4, 5>>

\* C5: an authenticator that was constructed has every required value
\* present (login URL, alias, username, password), and no goto or fill is
\* issued with a missing value.
C5_ConstructedMeansComplete ==
    /\ authPc \notin {"new", "ctor_raised"} =>
           /\ Truthy(env.AUTH_URL)
           /\ Truthy(env.LOGIN_ALIAS)
           /\ Truthy(env.USERNAME)
           /\ Truthy(env.PASSWORD)
    /\ \A k \in 1..Len(calls) :
           calls[k].op \in {"goto", "fill"} => Truthy(calls[k].value)

\* C6: in headless mode with a non-empty SMS_CODE in the environment the
\* operator is never prompted, every fill of the code field carries exactly
\* the environment value, and the final confirmation click comes right after
\* a completed fill of the code field with that value.
C6_EnvCodeUsedWithoutPrompt ==
    headless /\ Truthy(env.SMS_CODE) =>
        /\ ~prompted
        /\ authPc # "await_input"
        /\ inputLine = Unset
        /\ \A k \in 1..Len(calls) :
               /\ IsCodeFill(calls[k]) => calls[k].value = env.SMS_CODE
               /\ IsFinalClick(calls[k]) =>
                      /\ k > 1
                      /\ calls[k - 1] = Call("fill", SelSmsCode, env.SMS_CODE, "ok")

C6_Witness ==
    /\ headless
    /\ env.SMS_CODE = Str(<<"1", "2", "3", "4", "5", "6">>)
    /\ authResult = "returned"
    /\ \E k \in 1..Len(calls) : IsFinalClick(calls[k])

\* C7: in headless mode without an environment code, once the operator's line
\* has arrived: if its trimmed length is below 4, auth has raised
\* AuthenticationError and neither the code fill nor the final click is
\* issued; if it is 4 or more, the trimmed line is what gets filled (the fill
\* is the next call or has been issued with that value) and, the fill having
\* completed, the final click is next or has been issued.
C7_ShortOperatorCodeRejected ==
    headless /\ ~Truthy(env.SMS_CODE) /\ inputLine.present =>
        LET code == Strip(inputLine.val)
        IN  /\ Len(code) < 4 =>
                /\ authPc = "done"
                /\ authResult = "AuthenticationError"
                /\ \A k \in 1..Len(calls) :
                       ~IsCodeFill(calls[k]) /\ ~IsFinalClick(calls[k])
            /\ Len(code) >= 4 =>
                \/ authPc = "fill_code" /\ sms_code = Str(code)
                \/ \E k \in 1..Len(calls) :
                       /\ IsCodeFill(calls[k])
                       /\ calls[k].value = Str(code)
                       /\ ~Failed(calls[k]) =>
                              \/ authPc = "click_final"
                              \/ k < Len(calls) /\ IsFinalClick(calls[k + 1])

C7_Witness ==
    /\ headless
    /\ inputLine = Str(<<" ", "1", "1", "1", " ">>)
    /\ authResult = "AuthenticationError"
    /\ AllOk

\* C8: in interactive mode the wait on the code field completes only with
\* the field holding more than 5 characters before 60000 ms have elapsed, and
\* only then is the final click issued; the wait times out only with the
\* field at 5 characters or fewer at 60000 ms, and then auth has raised
\* AuthenticationError without a final click; the wait never runs past
\* 60000 ms.
C8_ManualEntryBoundedWait ==
    /\ elapsed <= 60000
    /\ authPc = "wait_function" /\ elapsed = 60000 => fieldLen <= 5
    /\ ~headless =>
         \A k \in 1..Len(calls) :
            /\ calls[k].op = "wait_for_function" /\ calls[k].outcome = "ok" =>
                   fieldLen > 5 /\ elapsed < 60000
            /\ calls[k].op = "wait_for_function"
                 /\ calls[k].outcome = "PlaywrightTimeoutError" =>
                   /\ fieldLen <= 5
                   /\ elapsed = 60000
                   /\ k = Len(calls)
                   /\ authPc = "done"
                   /\ authResult = "AuthenticationError"
            /\ IsFinalClick(calls[k]) =>
                   /\ k > 1
                   /\ calls[k - 1] = Call("wait_for_function", SelSmsCode, Unset, "ok")
                   /\ fieldLen > 5

C8_Witness ==
    /\ ~headless
    /\ fieldLen = 5
    /\ Len(calls) = 9
    /\ calls[9].outcome = "PlaywrightTimeoutError"
    /\ authResult = "AuthenticationError"

\* C9: in navigate_to_vpc_page a failure of a popup-dismissal call other than
\* a timeout of the probe ends the operation with PageNavigationError, and no
\* call (so no product-section click) follows the failed one.
C9_PopupFailurePropagates ==
    \A k \in 1..Len(calls) :
        /\ IsPopupCall(calls[k])
        /\ Failed(calls[k])
        /\ ~(IsProbe(calls[k]) /\ calls[k].outcome = "PlaywrightTimeoutError")
        => /\ k = Len(calls)
           /\ navPc = "done"
           /\ navResult = "PageNavigationError"

C9_Witness ==
    /\ Len(calls) = 3
    /\ calls[3] = Call("click", SelPopupCheckbox, Unset, "PlaywrightError")
    /\ navResult = "PageNavigationError"

\* C10: extract_all_vpcs whose container wait succeeded and whose row
\* enumeration gave zero rows returns the empty list and does not raise.
C10_EmptyTableReturnsEmpty ==
    /\ navOp = "extract_all_vpcs"
    /\ navPc = "done"
    /\ Len(calls) = 2
    /\ AllOk
    /\ table = <<>>
    => navResult = "returned" /\ vpcs = <<>>

C10_Witness ==
    /\ navOp = "extract_all_vpcs"
    /\ Len(calls) = 2
    /\ AllOk
    /\ table = <<>>
    /\ navResult = "returned"

IsOkLoad(c) == c = Call("wait_for_load_state", "", Unset, "ok")
CompletedBy(c) ==
    \E k \in 1..(Len(calls) - 1) : calls[k] = c /\ IsOkLoad(calls[k + 1])

\* C11: in run no navigator operation is entered unless auth has returned
\* normally; navigate_to_sslvpn_page is entered only after
\* navigate_to_vpc_page completed, and extract_all_vpcs only after
\* navigate_to_sslvpn_page completed; once auth has raised no navigator
\* operation is ever entered, and a failed page call is the last page call of
\* the run.
C11_StagesStrictlyOrdered ==
    /\ navOp # "none" => authPc = "done" /\ authResult = "returned"
    /\ authResult \notin {"none", "returned"} => navOp = "none" /\ navPc = "idle"
    /\ navOp \in {"navigate_to_sslvpn_page", "extract_all_vpcs"} =>
           CompletedBy(Call("click", SelVpcButton, Unset, "ok"))
    /\ navOp = "extract_all_vpcs" => CompletedBy(Call("goto", "", SslVpnUrl, "ok"))
    /\ \A k \in 1..Len(calls) : Failed(calls[k]) => k = Len(calls)
    /\ runPc \in {"raised", "closed"} => navPc \in {"idle", "done"}

C11_Witness ==
    /\ runPc = "closed"
    /\ navOp = "extract_all_vpcs"
    /\ navResult = "returned"
    /\ Len(vpcs) = 2

\* C12: the interceptor is registered when the challenge-trigger click is in
\* flight, every alert raised during that click is dismissed by the
\* interceptor, and no dialog of another kind is dismissed by it.
C12_AlertDuringTriggerClickDismissed ==
    /\ authPc = "click_trigger" => dialogHandler
    /\ \A k \in 1..Len(dialogLog) :
           /\ dialogLog[k].during = "click_trigger" /\ dialogLog[k].kind = "alert" =>
                  dialogLog[k].by = "interceptor"
           /\ dialogLog[k].kind # "alert" => dialogLog[k].by # "interceptor"

\* C13: a navigator operation that has ended either returned or raised
\* PageNavigationError, never anything else; a failed page call (a timeout of
\* the popup probe aside) has ended the operation with PageNavigationError;
\* and extract_all_vpcs that raised did so before scanning any row, so no
\* list of records comes back.
C13_NavigationFailuresWrapped ==
    /\ navPc = "done" => navResult \in {"returned", "PageNavigationError"}
    /\ \A k \in 1..Len(calls) :
           Failed(calls[k])
             /\ ~(IsProbe(calls[k]) /\ calls[k].outcome = "PlaywrightTimeoutError")
           => navPc = "done" /\ navResult = "PageNavigationError"
    /\ navOp = "extract_all_vpcs" /\ navResult = "PageNavigationError" =>
           /\ \E k \in 1..Len(calls) : Failed(calls[k])
           /\ vpcs = <<>>
           /\ rowCalls = <<>>
    /\ navResult = "returned" => AllOk

C13_Witness ==
    /\ navOp = "extract_all_vpcs"
    /\ Len(calls) = 1
    /\ calls[1] = Call("wait_for_selector", SelTableBody, Unset, "PlaywrightTimeoutError")
    /\ navResult = "PageNavigationError"

IsSubmitClick(c) == c.op = "click" /\ c.target = SelLoginSubmit
IsTriggerClick(c) == c.op = "click" /\ c.target = SelSmsTrigger
TimesIssued(P(_)) == Cardinality({k \in 1..Len(calls) : P(calls[k])})
ClicksAtMostOnce ==
    /\ TimesIssued(IsSubmitClick) <= 1
    /\ TimesIssued(IsTriggerClick) <= 1
    /\ TimesIssued(IsFinalClick) <= 1

\* C14 as stated: after a call has failed, on the page or on an element of
\* the table, no further call is issued, and the submit, trigger and final
\* clicks are each issued at most once.
C14_NoCallAfterAnyFailure ==
    /\ \A k \in 1..Len(calls) : Failed(calls[k]) => k = Len(calls) /\ rowCalls = <<>>
    /\ \A k \in 1..Len(rowCalls) : Failed(rowCalls[k]) => k = Len(rowCalls)
    /\ ClicksAtMostOnce

\* C14 amended: after a page call has failed no further call is issued; after
\* a read on a row's element has failed no further call is issued for that
\* row, every later call belonging to a later row; no read of a row is
\* issued twice; and the three clicks are each issued at most once.
C14_NoRetry ==
    /\ \A k \in 1..Len(calls) : Failed(calls[k]) => k = Len(calls) /\ rowCalls = <<>>
    /\ \A k \in 1..Len(rowCalls) :
           Failed(rowCalls[k]) =>
               \A j \in (k + 1)..Len(rowCalls) : rowCalls[j].row > rowCalls[k].row
    /\ \A j, k \in 1..Len(rowCalls) :
           j # k => <<rowCalls[j].row, rowCalls[j].op, rowCalls[j].col>>
                      # <<rowCalls[k].row, rowCalls[k].op, rowCalls[k].col>>
    /\ ClicksAtMostOnce

C14_Witness ==
    /\ runPc = "closed"
    /\ navResult = "returned"
    /\ \E k \in 1..Len(rowCalls) :
           /\ Failed(rowCalls[k])
           /\ rowCalls[k].col = 2
           /\ k < Len(rowCalls)
    /\ TimesIssued(IsFinalClick) = 1

\* C15: while auth waits for the operator's line another task can take a
\* step; during that wait the line has not arrived and neither the code fill
\* nor the final click has been issued; and when the operator was prompted
\* the code fill is issued only once the line has arrived, the final click
\* only right after the code fill.
C15_PromptSuspendsOnlyAuth ==
    /\ authPc = "await_input" /\ Len(otherLog) < MaxOtherSteps => ENABLED OtherTaskStep
    /\ authPc = "await_input" =>
           /\ prompted
           /\ ~inputLine.present
           /\ \A k \in 1..Len(calls) : ~IsCodeFill(calls[k]) /\ ~IsFinalClick(calls[k])
    /\ prompted =>
           \A k \in 1..Len(calls) :
               /\ IsCodeFill(calls[k]) => inputLine.present
               /\ IsFinalClick(calls[k]) => k > 1 /\ IsCodeFill(calls[k - 1])

C15_Witness ==
    /\ Len(otherLog) = 2
    /\ otherLog[1] = "await_input"
    /\ otherLog[2] = "await_input"
    /\ \E k \in 1..Len(calls) : IsFinalClick(calls[k])

\* C16: in interactive mode auth never acquires a code value: the
\* environment code is never read into sms_code, the operator is never
\* prompted and no line is read, no fill on the code field is issued, whether
\* or not SMS_CODE is set; the only call between the trigger click and the
\* final click is the wait on the code field's content.
C16_InteractiveNeverAcquiresCode ==
    ~headless =>
        /\ ~prompted
        /\ inputLine = Unset
        /\ sms_code = Unset
        /\ authPc \notin {"get_sms_code", "await_input", "fill_code"}
        /\ \A k \in 1..Len(calls) :
               /\ ~IsCodeFill(calls[k])
               /\ IsTriggerClick(calls[k]) /\ k < Len(calls) =>
                      /\ calls[k + 1].op = "wait_for_function"
                      /\ calls[k + 1].target = SelSmsCode
                      /\ calls[k + 1].value = Unset
               /\ IsFinalClick(calls[k]) =>
                      /\ k > 2
                      /\ IsTriggerClick(calls[k - 2])

C16_Witness ==
    /\ ~headless
    /\ env.SMS_CODE = Str(<<"1", "2", "3">>)
    /\ authResult = "returned"
    /\ Len(calls) = 11
    /\ calls[9].op = "wait_for_function"

\* C17: in headless mode a non-empty environment code of any length, 1 to 3
\* characters included, is taken unvalidated: auth raises only after a failed
\* engine call, the code fill carries exactly the environment code and comes
\* right after the trigger click, and the final click right after the fill;
\* an environment code that is unset or the empty string leads to the
\* operator prompt before any code fill.
C17_EnvCodeNotValidated ==
    headless =>
        /\ env.SMS_CODE.present /\ Len(env.SMS_CODE.val) >= 1 =>
               /\ ~prompted
               /\ authPc = "done" /\ authResult = "AuthenticationError" =>
                      \E k \in 1..Len(calls) : Failed(calls[k])
               /\ \A k \in 1..Len(calls) :
                      /\ IsTriggerClick(calls[k]) /\ ~Failed(calls[k]) =>
                             \/ k = Len(calls) /\ authPc \in {"once_dialog", "get_sms_code", "fill_code"}
                             \/ k < Len(calls) /\ calls[k + 1].op = "fill"
                                               /\ calls[k + 1].target = SelSmsCode
                                               /\ calls[k + 1].value = env.SMS_CODE
                      /\ IsCodeFill(calls[k]) /\ ~Failed(calls[k]) =>
                             \/ k = Len(calls) /\ authPc = "click_final"
                             \/ k < Len(calls) /\ IsFinalClick(calls[k + 1])
        /\ ~env.SMS_CODE.present \/ env.SMS_CODE.val = <<>> =>
               /\ authPc \in {"await_input", "fill_code", "click_final", "wait_load_sms"} => prompted
               /\ \A k \in 1..Len(calls) : IsCodeFill(calls[k]) => prompted /\ inputLine.present

C17_Witness ==
    /\ headless
    /\ env.SMS_CODE = Str(<<"1">>)
    /\ authResult = "returned"
    /\ calls[9] = Call("fill", SelSmsCode, Str(<<"1">>), "ok")
    /\ IsFinalClick(calls[10])

C17_WitnessEmpty ==
    /\ headless
    /\ env.SMS_CODE = Str(<<>>)
    /\ prompted
    /\ authResult = "returned"

PartialRow(r) ==
    /\ r.query = "element"
    /\ ~r.name.raises
    /\ \E j \in 1..Len(r.cols) : r.cols[j].raises

\* C18: every record of the result carries the trimmed name, the row index
\* and one column entry for every cell of its row, each the trimmed text of
\* that cell; a scanned row whose name was read but one of whose column reads
\* raised has no record in the result.
C18_RecordsAppendedWhole ==
    /\ \A n \in 1..Len(vpcs) :
           LET k == vpcs[n].row_index
           IN  /\ k \in 1..rowIdx
               /\ vpcs[n].name = StripOrEmpty(table[k].name)
               /\ DOMAIN vpcs[n].columns = 1..Len(table[k].cols)
               /\ \A j \in 1..Len(table[k].cols) :
                      /\ ~table[k].cols[j].raises
                      /\ vpcs[n].columns[j] = StripOrEmpty(table[k].cols[j])
    /\ \A k \in 1..rowIdx :
           PartialRow(table[k]) => \A n \in 1..Len(vpcs) : vpcs[n].row_index # k

C18_Witness ==
    /\ navResult = "returned"
    /\ Len(table) = 3
    /\ PartialRow(table[2])
    /\ GoodRow(table[1])
    /\ GoodRow(table[3])
    /\ [n \in 1..Len(vpcs) |-> vpcs[n].row_index] = <<1, 3>>
    /\ \E c \in 1..Len(rowCalls) :
           rowCalls[c].row = 2 /\ rowCalls[c].op = "text_content" /\ rowCalls[c].outcome # "ok"

\* the number of page calls of one complete auth
FlowLen == Len(ExpectedCalls)

\* C19: a call of auth made after an earlier call returned starts again at
\* the navigation to the login URL and issues, step for step, the operations
\* of the earlier call on the same targets and, the code fill apart, with the
\* same values; when it returns it has issued the full flow once more.
C19_SecondCallRerunsFlow ==
    /\ Len(calls) <= FlowLen * authCalls
    /\ \A k \in 1..Len(calls) :
           k > FlowLen =>
               /\ OpTarget(calls[k]) = OpTarget(calls[k - FlowLen])
               /\ ~IsCodeFill(calls[k]) => calls[k].value = calls[k - FlowLen].value
    /\ authCalls >= 2 /\ Len(calls) = FlowLen * (authCalls - 1) =>
           authPc = "goto" /\ authResult = "none"
    /\ authCalls >= 1 /\ authPc = "done" /\ authResult = "returned" =>
           Len(calls) = FlowLen * authCalls

C19_Witness ==
    /\ authCalls = 2
    /\ authPc = "done"
    /\ authResult = "returned"
    /\ Len(calls) = 2 * FlowLen
    /\ calls[FlowLen + 1] = Call("goto", "", self.url, "ok")
    /\ IsFinalClick(calls[2 * FlowLen - 1])

====
